---- MODULE Spec2Model ----
(***************************************************************************)
(* ConfigIO: routed read / modify / write access to JSON and YAML          *)
(* documents.                                                              *)
(*                                                                         *)
(* Python values are modelled with object identity, because the claims     *)
(* about _set are claims about aliasing:                                   *)
(*   - None is the integer 0;                                              *)
(*   - a negative integer is a value that is not a MutableMapping and not  *)
(*     None (a number, a string, a boolean, a list);                       *)
(*   - a positive integer a is a reference to the dict stored at heap[a].  *)
(* A dict is a function whose DOMAIN is its key set.  Documents are finite: *)
(* a dict may be held under several keys (as a YAML alias loads), but no    *)
(* dict holds itself.                                                       *)
(***************************************************************************)
EXTENDS Integers, Sequences, FiniteSets, TLC

VARIABLES
    \* the engine: one caller of _get / _set
    heap0, heap, D, R, V, ow, phase, res, got, res2,
    \* the facade: calls of get / set on one file
    file0, file, call, proc, lastSaver

engineVars == <<heap0, heap, D, R, V, ow, phase, res, got, res2>>

facadeVars == <<file0, file, call, proc, lastSaver>>

vars == <<engineVars, facadeVars>>

----------------------------------------------------------------------------
(* Bounds of the explored inputs *)

MaxRouteLen == 3

Keys == {"a", "b"}

KeyOrder == <<"a", "b">>

None == 0

MaxScalar == 1

Scalars == {-n : n \in 1..MaxScalar}

Atoms == {None} \cup Scalars

\* The dicts that exist before the call: a root at address 1, which may hold
\* the dict at address 2.
Addr0 == {1, 2}

RECURSIVE SeqsUpTo(_)
SeqsUpTo(n) ==
    IF n = 0 THEN {<<>>}
    ELSE LET S == SeqsUpTo(n - 1)
         IN  S \cup {Append(s, k) : s \in {t \in S : Len(t) = n - 1}, k \in Keys}

\* route=None, the default of _get and _set
NoRoute == <<"None">>

Routes == SeqsUpTo(MaxRouteLen) \cup {NoRoute}

----------------------------------------------------------------------------
(* Python values *)

\* isinstance(x, MutableMapping)
IsMapping(x) == x > 0

EmptyDict == [k \in {} |-> None]

\* cur[seg] = v
DictSet(h, a, seg, v) == [h EXCEPT ![a] = (seg :> v) @@ @]

\* the keys of a dict, in iteration order
KeysOf(d) == SelectSeq(KeyOrder, LAMBDA k : k \in DOMAIN d)

\* `not route`
Falsy(route) == route = NoRoute \/ Len(route) = 0

\* copy.deepcopy with its memo: atoms are returned as they are, a dict is
\* copied once into a fresh dict, its values copied recursively.
RECURSIVE deepcopyMemo(_, _, _)
RECURSIVE deepcopyItems(_, _, _, _, _)
deepcopyMemo(h, memo, x) ==
    IF ~IsMapping(x) THEN [heap |-> h, memo |-> memo, ret |-> x]
    ELSE IF x \in DOMAIN memo THEN [heap |-> h, memo |-> memo, ret |-> memo[x]]
    ELSE LET y == Len(h) + 1
         IN  deepcopyItems(Append(h, EmptyDict), (x :> y) @@ memo, x, y, KeysOf(h[x]))

deepcopyItems(h, memo, x, y, ks) ==
    IF ks = <<>> THEN [heap |-> h, memo |-> memo, ret |-> y]
    ELSE LET r == deepcopyMemo(h, memo, h[x][Head(ks)])
         IN  deepcopyItems(DictSet(r.heap, y, Head(ks), r.ret), r.memo, x, y, Tail(ks))

\* deepcopy left out: root = data
deepcopy_alias(h, x) == [heap |-> h, ret |-> x]

deepcopy(h, x) ==
    LET r == deepcopyMemo(h, EmptyDict, x) IN [heap |-> r.heap, ret |-> r.ret]

----------------------------------------------------------------------------
(* configio.utils._get *)

RECURSIVE GetWalk(_, _, _)
\* cur.get(seg) in place of the membership test: a missing key reads as None
GetWalk_get(h, cur, segs) ==
    IF segs = <<>> THEN [status |-> "ok", ret |-> cur]
    ELSE IF ~IsMapping(cur) THEN [status |-> "TypeError", ret |-> None]
    ELSE IF Head(segs) \notin DOMAIN h[cur] THEN GetWalk(h, None, Tail(segs))
    ELSE GetWalk(h, h[cur][Head(segs)], Tail(segs))

GetWalk(h, cur, segs) ==
    IF segs = <<>> THEN [status |-> "ok", ret |-> cur]
    ELSE IF ~IsMapping(cur) THEN [status |-> "TypeError", ret |-> None]
    ELSE IF Head(segs) \notin DOMAIN h[cur] THEN [status |-> "KeyError", ret |-> None]
    ELSE GetWalk(h, h[cur][Head(segs)], Tail(segs))

_get(h, data, route) ==
    IF Falsy(route) THEN [status |-> "ok", ret |-> data]
    ELSE GetWalk(h, data, route)

----------------------------------------------------------------------------
(* configio.utils._set *)

\* the isinstance test left out: every existing key is a conflict
SetStep_existing(h, cur, seg, overwrite_conflicts) ==
    IF seg \in DOMAIN h[cur]
    THEN IF overwrite_conflicts
         THEN [heap |-> DictSet(Append(h, EmptyDict), cur, seg, Len(h) + 1),
               status |-> "ok", nxt |-> Len(h) + 1]
         ELSE [heap |-> h, status |-> "TypeError", nxt |-> h[cur][seg]]
    ELSE [heap |-> DictSet(Append(h, EmptyDict), cur, seg, Len(h) + 1),
          status |-> "ok", nxt |-> Len(h) + 1]

\* overwrite_conflicts ignored: a conflicting value is always replaced
SetStep_overwrite(h, cur, seg, overwrite_conflicts) ==
    IF seg \in DOMAIN h[cur] /\ IsMapping(h[cur][seg])
    THEN [heap |-> h, status |-> "ok", nxt |-> h[cur][seg]]
    ELSE [heap |-> DictSet(Append(h, EmptyDict), cur, seg, Len(h) + 1),
          status |-> "ok", nxt |-> Len(h) + 1]

\* One iteration of the loop over route[:-1]: cur is a dict, nxt is the dict
\* the loop descends into.
SetStep(h, cur, seg, overwrite_conflicts) ==
    IF seg \in DOMAIN h[cur]
    THEN LET nxt == h[cur][seg] IN
         IF ~IsMapping(nxt)
         THEN IF overwrite_conflicts
              THEN [heap |-> DictSet(Append(h, EmptyDict), cur, seg, Len(h) + 1),
                    status |-> "ok", nxt |-> Len(h) + 1]
              ELSE [heap |-> h, status |-> "TypeError", nxt |-> nxt]
         ELSE [heap |-> h, status |-> "ok", nxt |-> nxt]
    ELSE [heap |-> DictSet(Append(h, EmptyDict), cur, seg, Len(h) + 1),
          status |-> "ok", nxt |-> Len(h) + 1]

\* the loop over route[:0]: the parents are never walked
SetWalk_skip(h, cur, segs, overwrite_conflicts) ==
    [heap |-> h, status |-> "ok", cur |-> cur]

\* the loop over route[:-1]
RECURSIVE SetWalk(_, _, _, _)
SetWalk(h, cur, segs, overwrite_conflicts) ==
    IF segs = <<>> THEN [heap |-> h, status |-> "ok", cur |-> cur]
    ELSE LET s == SetStep(h, cur, Head(segs), overwrite_conflicts) IN
         IF s.status # "ok" THEN [heap |-> s.heap, status |-> s.status, cur |-> cur]
         ELSE SetWalk(s.heap, s.nxt, Tail(segs), overwrite_conflicts)

\* root = deepcopy(data), then bootstrap / validate the root
SetRoot(h, data, overwrite_conflicts) ==
    LET c == deepcopy(h, data) IN
    IF c.ret = None
    THEN [heap |-> Append(c.heap, EmptyDict), status |-> "ok", root |-> Len(c.heap) + 1]
    ELSE IF ~IsMapping(c.ret)
         THEN IF overwrite_conflicts
              THEN [heap |-> Append(c.heap, EmptyDict), status |-> "ok",
                    root |-> Len(c.heap) + 1]
              ELSE [heap |-> c.heap, status |-> "TypeError", root |-> None]
         ELSE [heap |-> c.heap, status |-> "ok", root |-> c.ret]

_set(h, data, route, value, overwrite_conflicts) ==
    IF Falsy(route) THEN [heap |-> h, status |-> "ok", ret |-> value]
    ELSE LET r == SetRoot(h, data, overwrite_conflicts) IN
         IF r.status # "ok" THEN [heap |-> r.heap, status |-> r.status, ret |-> None]
         ELSE LET w == SetWalk(r.heap, r.root, SubSeq(route, 1, Len(route) - 1),
                               overwrite_conflicts)
              IN  IF w.status # "ok"
                  THEN [heap |-> w.heap, status |-> w.status, ret |-> None]
                  ELSE [heap |-> DictSet(w.heap, w.cur, route[Len(route)], value),
                        status |-> "ok", ret |-> r.root]

----------------------------------------------------------------------------
(* Structural content of a value: every route that resolves from it, with   *)
(* the atom found there, or 1 where a dict is found.                        *)

RECURSIVE View(_, _)
View(h, x) ==
    IF ~IsMapping(x) THEN {<< <<>>, x >>}
    ELSE {<< <<>>, 1 >>} \cup
         UNION {{<< <<k>> \o e[1], e[2] >> : e \in View(h, h[x][k])} : k \in DOMAIN h[x]}

\* the dicts reachable from a value
RECURSIVE Reach(_, _)
Reach(h, x) ==
    IF ~IsMapping(x) THEN {}
    ELSE {x} \cup UNION {Reach(h, h[x][k]) : k \in DOMAIN h[x]}

----------------------------------------------------------------------------
(* The engine: one call of _set on a caller's document, then the calls the  *)
(* properties compare it with.                                              *)

NoResult == [status |-> "none", ret |-> None]

\* dicts of the caller before the call: dict 1 may hold dict 2
DictsAt(a) == UNION {[S -> Atoms \cup {b \in Addr0 : b > a}] : S \in SUBSET Keys}

----------------------------------------------------------------------------
(* configio.utils._infer_codec *)

\* path.suffix of the paths the calls are made with
Suffixes == {".json", ".JSON", ".yml", ".yaml", ".txt", ""}

\* str.lower on those suffixes
Lower(s) == IF s = ".JSON" THEN ".json" ELSE s

\* the codec argument: None, a member of Codec, or a value that is no Codec
CodecArgs == {"None", "JSON", "YAML", "str"}

\* isinstance(codec, Codec)
IsCodec(codec) == codec \in {"JSON", "YAML"}

_infer_codec(suffix, codec) ==
    IF codec # "None"
    THEN IF IsCodec(codec) THEN codec ELSE "TypeError"
    ELSE LET ext == Lower(suffix) IN
         IF ext = ".json" THEN "JSON"
         ELSE IF ext \in {".yml", ".yaml"} THEN "YAML"
         ELSE "TypeError"

----------------------------------------------------------------------------
(* The file and the backends jsonio / yamlio.  The content of the file is   *)
(* the serialized document: its structural content, with no object          *)
(* identity.                                                                *)

\* bytes that are no document of the codec
Malformed == {}

NoFile == [exists |-> FALSE, content |-> Malformed]

FileOf(content) == [exists |-> TRUE, content |-> content]

\* the parser: a fresh document on every load
RECURSIVE Parse(_, _)
RECURSIVE ParseItems(_, _, _, _)
Parse(h, content) ==
    LET top == CHOOSE e \in content : e[1] = <<>> IN
    IF top[2] # 1 THEN [heap |-> h, ret |-> top[2]]
    ELSE ParseItems(Append(h, EmptyDict), content, Len(h) + 1, KeyOrder)

ParseItems(h, content, y, ks) ==
    IF ks = <<>> THEN [heap |-> h, ret |-> y]
    ELSE LET k == Head(ks)
             sub == {<<Tail(e[1]), e[2]>> : e \in {f \in content : f[1] # <<>> /\ Head(f[1]) = k}}
         IN  IF sub = {} THEN ParseItems(h, content, y, Tail(ks))
             ELSE LET r == Parse(h, sub)
                  IN  ParseItems(DictSet(r.heap, y, k, r.ret), content, y, Tail(ks))

\* jsonio.load / yamlio.load: OSError when the file cannot be read, the
\* codec's parse error on malformed content, else the parsed document
Load(f) ==
    IF ~f.exists THEN [status |-> "OSError", heap |-> <<>>, ret |-> None]
    ELSE IF f.content = Malformed
         THEN [status |-> "ParseError", heap |-> <<>>, ret |-> None]
         ELSE LET r == Parse(<<>>, f.content)
              IN  [status |-> "ok", heap |-> r.heap, ret |-> r.ret]

\* jsonio.save / yamlio.save: the file is replaced as a whole by the
\* serialized document
Save(h, x) == FileOf(View(h, x))

----------------------------------------------------------------------------
(* configio.get and configio.set                                            *)

Procs == {1, 2}

MaxFacadeRouteLen == 2

FacadeRoutes == SeqsUpTo(MaxFacadeRouteLen) \cup {NoRoute}

\* documents a file may hold before the calls: an atom, or a dict whose
\* values are atoms or the empty dict
FileDocs == {View(<<d, EmptyDict>>, x) : d \in DictsAt(1), x \in Atoms \cup {1}}

Files == {NoFile, FileOf(Malformed)} \cup {FileOf(c) : c \in FileDocs}

Calls == [op : {"get", "set"}, suffix : Suffixes, codec : CodecArgs,
          route : FacadeRoutes, value : Atoms, overwrite_conflicts : BOOLEAN]

NoCall == [op |-> "none", suffix |-> "", codec |-> "None", route |-> <<>>,
           value |-> None, overwrite_conflicts |-> FALSE]

\* pc: the statement the call is at; heap, data, new_data: its locals;
\* ret: what the caller gets; why: the exception the call caught;
\* saved: the save has replaced the file; loaded: what load read
Fresh(pc) == [pc |-> pc, fmt |-> "None", heap |-> <<>>, data |-> None, new_data |-> None,
              ret |-> "pending", val |-> Malformed, why |-> "none",
              saved |-> FALSE, loaded |-> Malformed]

FacadeIdle ==
    /\ file0 = NoFile
    /\ file = NoFile
    /\ call = [p \in Procs |-> NoCall]
    /\ proc = [p \in Procs |-> Fresh("idle")]
    /\ lastSaver = 0

EngineIdle ==
    /\ heap0 = <<>>
    /\ heap = <<>>
    /\ D = None
    /\ R = <<>>
    /\ V = None
    /\ ow = FALSE
    /\ phase = "idle"
    /\ res = NoResult
    /\ got = NoResult
    /\ res2 = NoResult

\* get, lines 100-109: fmt = _infer_codec(p, codec), outside the try
GetStart(p) ==
    /\ call[p].op = "get"
    /\ proc[p].pc = "start"
    /\ LET fmt == _infer_codec(call[p].suffix, call[p].codec) IN
         proc' = [proc EXCEPT ![p] =
                    IF fmt = "TypeError"
                    THEN [@ EXCEPT !.pc = "done", !.ret = "raise TypeError"]
                    ELSE [@ EXCEPT !.pc = "load", !.fmt = fmt]]
    /\ UNCHANGED <<file0, file, call, lastSaver, engineVars>>

\* get, lines 111-125: data = await load(...); return _get(data, route)
GetLoad(p) ==
    /\ call[p].op = "get"
    /\ proc[p].pc = "load"
    /\ LET l == Load(file) IN
         proc' = [proc EXCEPT ![p] =
                    IF l.status = "OSError"
                    THEN [@ EXCEPT !.pc = "done", !.ret = "raise OSError"]
                    ELSE IF l.status = "ParseError"
                    THEN [@ EXCEPT !.pc = "done", !.ret = "None", !.why = "ParseError"]
                    ELSE LET g == _get(l.heap, l.ret, call[p].route) IN
                         IF g.status = "ok"
                         THEN [@ EXCEPT !.pc = "done", !.ret = "value",
                                        !.val = View(l.heap, g.ret),
                                        !.loaded = file.content]
                         ELSE [@ EXCEPT !.pc = "done", !.ret = "None",
                                        !.why = g.status, !.loaded = file.content]]
    /\ UNCHANGED <<file0, file, call, lastSaver, engineVars>>

\* set, lines 168-177: fmt = _infer_codec(p, codec), outside the try
SetStart(p) ==
    /\ call[p].op = "set"
    /\ proc[p].pc = "start"
    /\ LET fmt == _infer_codec(call[p].suffix, call[p].codec) IN
         proc' = [proc EXCEPT ![p] =
                    IF fmt = "TypeError"
                    THEN [@ EXCEPT !.pc = "done", !.ret = "raise TypeError"]
                    ELSE [@ EXCEPT !.pc = "load", !.fmt = fmt]]
    /\ UNCHANGED <<file0, file, call, lastSaver, engineVars>>

\* set, lines 181 / 186: data = await load(...)
SetLoad(p) ==
    /\ call[p].op = "set"
    /\ proc[p].pc = "load"
    /\ LET l == Load(file) IN
         proc' = [proc EXCEPT ![p] =
                    IF l.status = "OSError"
                    THEN [@ EXCEPT !.pc = "done", !.ret = "raise OSError"]
                    ELSE IF l.status = "ParseError"
                    THEN [@ EXCEPT !.pc = "done", !.ret = "False", !.why = "ParseError"]
                    ELSE [@ EXCEPT !.pc = "mutate", !.heap = l.heap, !.data = l.ret,
                                   !.loaded = file.content]]
    /\ UNCHANGED <<file0, file, call, lastSaver, engineVars>>

\* the TypeError of _set swallowed: the call goes on to save the document it
\* loaded
SetMutate_swallow(p) ==
    /\ call[p].op = "set"
    /\ proc[p].pc = "mutate"
    /\ LET r == _set(proc[p].heap, proc[p].data, call[p].route, call[p].value,
                     call[p].overwrite_conflicts) IN
         proc' = [proc EXCEPT ![p] =
                    IF r.status = "ok"
                    THEN [@ EXCEPT !.pc = "save", !.heap = r.heap, !.new_data = r.ret]
                    ELSE [@ EXCEPT !.pc = "save", !.new_data = proc[p].data]]
    /\ UNCHANGED <<file0, file, call, lastSaver, engineVars>>

\* set, lines 182 / 187: new_data = _set(data, route, value, ...); a TypeError
\* is caught at lines 195-197
SetMutate(p) ==
    /\ call[p].op = "set"
    /\ proc[p].pc = "mutate"
    /\ LET r == _set(proc[p].heap, proc[p].data, call[p].route, call[p].value,
                     call[p].overwrite_conflicts) IN
         proc' = [proc EXCEPT ![p] =
                    IF r.status = "ok"
                    THEN [@ EXCEPT !.pc = "save", !.heap = r.heap, !.new_data = r.ret]
                    ELSE [@ EXCEPT !.pc = "done", !.ret = "False", !.why = r.status,
                                   !.heap = <<>>, !.data = None]]
    /\ UNCHANGED <<file0, file, call, lastSaver, engineVars>>

\* a save that merges: the update is applied again to the file as it now is
SetSave_merge(p) ==
    /\ call[p].op = "set"
    /\ proc[p].pc = "save"
    /\ LET l == Load(file)
           r == _set(l.heap, l.ret, call[p].route, call[p].value,
                     call[p].overwrite_conflicts)
       IN  file' = IF l.status = "ok" /\ r.status = "ok"
                   THEN Save(r.heap, r.ret)
                   ELSE Save(proc[p].heap, proc[p].new_data)
    /\ lastSaver' = p
    /\ proc' = [proc EXCEPT ![p] = [@ EXCEPT !.pc = "return", !.saved = TRUE]]
    /\ UNCHANGED <<file0, call, engineVars>>

\* set, lines 183 / 188: await save(str(p), new_data, ...)
SetSave(p) ==
    /\ call[p].op = "set"
    /\ proc[p].pc = "save"
    /\ file' = Save(proc[p].heap, proc[p].new_data)
    /\ lastSaver' = p
    /\ proc' = [proc EXCEPT ![p] = [@ EXCEPT !.pc = "return", !.saved = TRUE]]
    /\ UNCHANGED <<file0, call, engineVars>>

\* set, lines 184 / 189: return True
SetReturn(p) ==
    /\ call[p].op = "set"
    /\ proc[p].pc = "return"
    /\ proc' = [proc EXCEPT ![p] = [@ EXCEPT !.pc = "done", !.ret = "True",
                                             !.heap = <<>>, !.data = None,
                                             !.new_data = None]]
    /\ UNCHANGED <<file0, file, call, lastSaver, engineVars>>

\* one call of get or set, with any path, codec, route, value and policy
FacadeInit ==
    /\ EngineIdle
    /\ file0 \in Files
    /\ file = file0
    /\ \E c \in Calls : call = [p \in Procs |-> IF p = 1 THEN c ELSE NoCall]
    /\ proc = [p \in Procs |-> IF p = 1 THEN Fresh("start") ELSE Fresh("idle")]
    /\ lastSaver = 0

FacadeNext ==
    \E p \in Procs :
        \/ GetStart(p)
        \/ GetLoad(p)
        \/ SetStart(p)
        \/ SetLoad(p)
        \/ SetMutate(p)
        \/ SetSave(p)
        \/ SetReturn(p)

FacadeSpec == FacadeInit /\ [][FacadeNext]_vars

\* two concurrent calls of set on the same .json file
RaceCalls == {c \in Calls : /\ c.op = "set"
                             /\ c.suffix = ".json"
                             /\ c.codec = "None"
                             /\ c.value \in Scalars}

\* The two calls are interchangeable, so of each pair of calls and its mirror
\* image one is explored: call 1 is the one that ranks lower.
CallRank(c) ==
    (IF Falsy(c.route) THEN 0 ELSE Len(c.route)) * 2
    + (IF c.overwrite_conflicts THEN 1 ELSE 0)

RaceInit ==
    /\ EngineIdle
    /\ file0 \in Files
    /\ file = file0
    /\ call \in [Procs -> RaceCalls]
    /\ CallRank(call[1]) <= CallRank(call[2])
    /\ proc = [p \in Procs |-> Fresh("start")]
    /\ lastSaver = 0

RaceNext ==
    \E p \in Procs :
        \/ SetStart(p)
        \/ SetLoad(p)
        \/ SetMutate(p)
        \/ SetSave(p)
        \/ SetReturn(p)

RaceSpec == RaceInit /\ [][RaceNext]_vars

----------------------------------------------------------------------------
(* The engine's calls *)

Init ==
    /\ heap0 \in {<<d1, d2>> : d1 \in DictsAt(1), d2 \in DictsAt(2)}
    /\ heap = heap0
    /\ D \in Atoms \cup {1}
    /\ V \in Atoms \cup Addr0
    /\ R \in Routes
    /\ ow \in BOOLEAN
    /\ phase = "init"
    /\ res = NoResult
    /\ got = NoResult
    /\ res2 = NoResult
    /\ FacadeIdle

\* N = _set(D, R, V, overwrite_conflicts=ow)
CallSet ==
    /\ phase = "init"
    /\ LET r == _set(heap, D, R, V, ow) IN
         /\ heap' = r.heap
         /\ res' = [status |-> r.status, ret |-> r.ret]
    /\ phase' = "set"
    /\ UNCHANGED <<heap0, D, R, V, ow, got, res2, facadeVars>>

\* _get(N, R)
CallGetResult ==
    /\ phase = "set"
    /\ res.status = "ok"
    /\ got' = _get(heap, res.ret, R)
    /\ phase' = "got"
    /\ UNCHANGED <<heap0, heap, D, R, V, ow, res, res2, facadeVars>>

\* _set(N, R, V, overwrite_conflicts=ow)
CallSetAgain ==
    /\ phase = "set"
    /\ res.status = "ok"
    /\ LET r == _set(heap, res.ret, R, V, ow) IN
         /\ heap' = r.heap
         /\ res2' = [status |-> r.status, ret |-> r.ret]
    /\ phase' = "again"
    /\ UNCHANGED <<heap0, D, R, V, ow, res, got, facadeVars>>

\* _get(D, R) on the caller's document
CallGet ==
    /\ phase = "init"
    /\ got' = _get(heap, D, R)
    /\ phase' = "resolved"
    /\ UNCHANGED <<heap0, heap, D, R, V, ow, res, res2, facadeVars>>

Next == CallSet \/ CallGetResult \/ CallSetAgain \/ CallGet

Spec == Init /\ [][Next]_vars

----------------------------------------------------------------------------
(* Properties of the engine *)

IsPrefix(p, q) == Len(p) <= Len(q) /\ SubSeq(q, 1, Len(p)) = p

\* a route as its segments: None and the empty route have none
Segs(route) == IF Falsy(route) THEN <<>> ELSE route

Prefixes(route) == {SubSeq(Segs(route), 1, n) : n \in 0..Len(Segs(route))}

ProperPrefixes(route) == {p \in Prefixes(route) : Len(p) < Len(Segs(route))}

\* route resolves in the document x
Present(h, x, route) == \E e \in View(h, x) : e[1] = route

\* repeated key lookup, without any check
RECURSIVE Lookup(_, _, _)
Lookup(h, x, segs) ==
    IF segs = <<>> THEN x ELSE Lookup(h, h[x][Head(segs)], Tail(segs))

\* C1: a call of _set, whether it returns or raises TypeError, leaves every
\* dict of the caller's document D as it was, so D is structurally what it was.
C1_OriginalUntouched ==
    phase = "set" =>
        /\ \A a \in Reach(heap0, D) : heap[a] = heap0[a]
        /\ View(heap, D) = View(heap0, D)

\* a Strict call fails at the third segment, after its copy was made, on a
\* document that has a nested dict
C1_Witness ==
    /\ phase = "set"
    /\ res.status = "TypeError"
    /\ ~ow
    /\ Len(R) = 3
    /\ Cardinality(Reach(heap0, D)) = 2
    /\ Len(heap) > Len(heap0)

\* C2: whenever _set(D, R, V) returns N, _get(N, R) returns a value equal to V.
C2_RoundTrip ==
    phase = "got" =>
        /\ got.status = "ok"
        /\ View(heap, got.ret) = View(heap, V)

\* the route repeats a segment and the value is a dict
C2_Witness ==
    /\ phase = "got"
    /\ Len(R) = 2
    /\ R[1] = R[2]
    /\ IsMapping(V)
    /\ got.status = "ok"

\* C3: whenever _set(D, R, V, p) returns N, _set(N, R, V, p) returns a document
\* structurally equal to N.
C3_Idempotent ==
    phase = "again" =>
        /\ res2.status = "ok"
        /\ View(heap, res2.ret) = View(heap, res.ret)

\* the first call replaced a conflicting value, the second walks the result
C3_Witness ==
    /\ phase = "again"
    /\ ow
    /\ Len(R) = 3
    /\ IsMapping(D)
    /\ \E p \in ProperPrefixes(R) :
          /\ Present(heap0, D, p)
          /\ ~IsMapping(Lookup(heap0, D, p))
    /\ res2.status = "ok"

\* C4 as claimed: if any prefix of R resolves in D to a value that is not a
\* mapping, the Strict call raises TypeError and the OverwriteConflicts call
\* returns a document in which that prefix is a mapping.
C4_AnyPrefixConflicts ==
    (phase = "set" /\ \E p \in Prefixes(R) :
                           Present(heap0, D, p) /\ ~IsMapping(Lookup(heap0, D, p)))
    => IF ow
       THEN /\ res.status = "ok"
            /\ \A p \in Prefixes(R) :
                  (Present(heap0, D, p) /\ ~IsMapping(Lookup(heap0, D, p)))
                  => IsMapping(_get(heap, res.ret, p).ret)
       ELSE res.status = "TypeError"

\* p is a prefix of R at which _set must descend and finds a value it cannot
\* descend into: shorter than R, and not the None root, which is bootstrapped.
Conflict(p) ==
    /\ p \in ProperPrefixes(R)
    /\ Present(heap0, D, p)
    /\ ~IsMapping(Lookup(heap0, D, p))
    /\ ~(p = <<>> /\ D = None)

\* C4 amended: if a prefix of R shorter than R resolves in D to a value that is
\* not a mapping (a None root excepted), the Strict call raises TypeError and
\* returns nothing, and the OverwriteConflicts call returns a document in which
\* every prefix of R shorter than R is a mapping.
C4_ProperPrefixConflicts ==
    (phase = "set" /\ \E p \in Prefixes(R) : Conflict(p))
    => IF ow
       THEN /\ res.status = "ok"
            /\ \A p \in ProperPrefixes(R) :
                  LET g == _get(heap, res.ret, p)
                  IN  g.status = "ok" /\ IsMapping(g.ret)
       ELSE res.status = "TypeError" /\ res.ret = None

\* scenario C under OverwriteConflicts: the scalar under the first segment is
\* replaced by a dict that holds the value
C4_Witness ==
    /\ phase = "set"
    /\ ow
    /\ Len(R) = 2
    /\ Conflict(<<R[1]>>)
    /\ res.status = "ok"
    /\ _get(heap, res.ret, R).status = "ok"

\* C7 as claimed: _get on a route present in D returns the value repeated
\* lookup reaches; on a route absent from D it raises KeyError.
C7_AbsentIsKeyError ==
    (phase = "resolved" /\ ~Falsy(R)) =>
        IF Present(heap, D, R)
        THEN got.status = "ok" /\ got.ret = Lookup(heap, D, R)
        ELSE got.status = "KeyError"

\* the longest prefix of R that resolves in D
LongestPresent(h, x, route) ==
    CHOOSE p \in Prefixes(route) :
        /\ Present(h, x, p)
        /\ \A q \in Prefixes(route) : Present(h, x, q) => Len(q) <= Len(p)

\* C7 amended: _get on a route present in D returns the value repeated lookup
\* reaches; on a route absent from D it raises KeyError when the walk stops at
\* a mapping that lacks the next segment, and TypeError when it stops at a
\* value that is not a mapping.
C7_AbsentIsKeyOrTypeError ==
    (phase = "resolved" /\ ~Falsy(R)) =>
        IF Present(heap, D, R)
        THEN got.status = "ok" /\ got.ret = Lookup(heap, D, R)
        ELSE IF IsMapping(Lookup(heap, D, LongestPresent(heap, D, R)))
             THEN got.status = "KeyError"
             ELSE got.status = "TypeError"

\* a missing key below a nested dict
C7_Witness ==
    /\ phase = "resolved"
    /\ Len(R) = 2
    /\ ~Falsy(R)
    /\ Present(heap, D, <<R[1]>>)
    /\ IsMapping(Lookup(heap, D, <<R[1]>>))
    /\ ~Present(heap, D, R)
    /\ got.status = "KeyError"

\* C9: _set with an empty route (or None) returns a full copy of V: equal to V
\* and sharing no dict with the caller's V.
C9_EmptyRouteCopies ==
    (phase = "set" /\ Falsy(R)) =>
        /\ res.status = "ok"
        /\ View(heap, res.ret) = View(heap0, V)
        /\ Reach(heap, res.ret) \cap Reach(heap, V) = {}

\* C10: when _set(D, R, V) with a non-empty R returns N, every route Q that
\* resolves in D and is neither a prefix nor an extension of R resolves in N to
\* an equal value.
C10_OtherRoutesKept ==
    (phase = "set" /\ res.status = "ok" /\ ~Falsy(R)) =>
        \A Q \in SeqsUpTo(MaxRouteLen) :
            (Present(heap0, D, Q) /\ ~IsPrefix(Q, R) /\ ~IsPrefix(R, Q))
            => LET g == _get(heap, res.ret, Q) IN
                 /\ g.status = "ok"
                 /\ View(heap, g.ret) = View(heap0, Lookup(heap0, D, Q))

\* OverwriteConflicts discards a scalar on the route while a sibling route
\* below the same dict is kept
C10_Witness ==
    /\ phase = "set"
    /\ res.status = "ok"
    /\ ow
    /\ Len(R) = 3
    /\ Conflict(<<R[1], R[2]>>)
    /\ \E k \in Keys : k # R[2] /\ Present(heap0, D, <<R[1], k>>)

----------------------------------------------------------------------------
(* Properties of the facade *)

\* no valid explicit codec, and no extension of a known format
Unsupported(c) ==
    \/ c.codec \notin {"None", "JSON", "YAML"}
    \/ c.codec = "None" /\ c.suffix \notin {".json", ".JSON", ".yml", ".yaml"}

\* C5: a call with an unsupported codec ends without an exception: get returns
\* None, set returns False and leaves the file as it was.
C5_UnsupportedCodecIsRecoverable ==
    \A p \in Procs :
        (proc[p].pc = "done" /\ Unsupported(call[p])) =>
            /\ call[p].op = "get" => proc[p].ret = "None"
            /\ call[p].op = "set" => proc[p].ret = "False" /\ file = file0

\* what _set makes of the document the call loaded
Produced(p) ==
    LET l == Parse(<<>>, proc[p].loaded)
        r == _set(l.heap, l.ret, call[p].route, call[p].value,
                  call[p].overwrite_conflicts)
    IN  [status |-> r.status,
         content |-> IF r.status = "ok" THEN View(r.heap, r.ret) ELSE Malformed]

\* C6: a set call that returns False because the document is malformed, the
\* root is no mapping or a Strict conflict was met has not invoked save and the
\* file is what it was; save is invoked only after _set returned a document;
\* True is returned only after the save.
C6_NoPersistOnFailure ==
    \A p \in Procs :
        call[p].op = "set" =>
            /\ (proc[p].ret = "False" /\ proc[p].why \in {"ParseError", "TypeError"})
               => ~proc[p].saved /\ file = file0 /\ lastSaver = 0
            /\ proc[p].saved
               => /\ proc[p].loaded # Malformed
                  /\ Produced(p).status = "ok"
                  /\ proc[p].why = "none"
            /\ proc[p].ret = "True" => proc[p].saved

\* a Strict call on a well-formed document ends with False at a conflict below
\* the root
C6_Witness ==
    /\ call[1].op = "set"
    /\ proc[1].pc = "done"
    /\ proc[1].ret = "False"
    /\ proc[1].why = "TypeError"
    /\ ~call[1].overwrite_conflicts
    /\ Len(call[1].route) = 2
    /\ <<<<>>, 1>> \in file0.content
    /\ file = file0

\* C8: the file is at all times the original document or the whole document
\* one writer made from the document it loaded, and once both calls are over
\* it is the document of the writer that saved last.
C8_LastWriterWins ==
    /\ \/ file = file0
       \/ \E p \in Procs : proc[p].saved /\ file = FileOf(Produced(p).content)
    /\ (\A p \in Procs : proc[p].pc = "done") =>
           IF lastSaver = 0
           THEN file = file0 /\ \A p \in Procs : ~proc[p].saved
           ELSE /\ proc[lastSaver].saved
                /\ file = FileOf(Produced(lastSaver).content)

\* both calls returned True, at routes that do not overlap, and the update of
\* one of them is not in the file
C8_Witness ==
    /\ \A p \in Procs : proc[p].pc = "done" /\ proc[p].ret = "True"
    /\ \E p \in Procs : \E q \in Procs \ {p} :
          /\ ~Falsy(call[p].route)
          /\ ~Falsy(call[q].route)
          /\ ~IsPrefix(call[p].route, call[q].route)
          /\ ~IsPrefix(call[q].route, call[p].route)
          /\ lastSaver = p
          /\ <<call[p].route, call[p].value>> \in file.content
          /\ <<call[q].route, call[q].value>> \notin file.content

====
